---------------------------- MODULE Spec2Model ----------------------------
(* A model of aten/src/ATen/native/Histogram.cpp: the CPU entry points of    *)
(* torch.histogramdd, torch.histogram and torch.histc, their input checks,   *)
(* the selection of the outermost bin edges and the preparation of the       *)
(* output tensors.  One behaviour is one call of one entry point, taken step *)
(* by step in the order of the statements of its body.                       *)
EXTENDS Integers, Sequences, FiniteSets, TLC

VARIABLES
    args,       \* the arguments of the call (never written by the call)
    hist,       \* the hist output tensor
    bin_edges,  \* the bin_edges output tensors (histc: its local bin_edges)
    bins,       \* the edge tensors given to histogramdd_check_inputs
    outer,      \* the outermost edges selected so far
    pc,         \* the statement of the entry point that runs next
    err,        \* "none", or the error the call ended with
    calls,      \* the invocations of histogramdd_stub / histogramdd_linear_stub
    log         \* the helper functions called so far, in order

vars == <<args, hist, bin_edges, bins, outer, pc, err, calls, log>>

-----------------------------------------------------------------------------
(* Bounds of the model.                                                      *)

\* largest innermost dimension N of the input
MaxN == 2
\* largest number of rows M of the input
MaxM == 2
\* largest requested bin count, and largest number of bins of an edge tensor
MaxCt == 2

-----------------------------------------------------------------------------
(* double and float values.  A finite value n stands for n / Unit; float32   *)
(* holds the even ones only, so that a conversion to float32 rounds.         *)

Unit == 2 * 6

Fin(n) == [k |-> "fin", v |-> n]
PosInf == [k |-> "inf", v |-> 1]
NegInf == [k |-> "inf", v |-> -1]
NaN == [k |-> "nan", v |-> 0]
\* the contents of memory that was allocated and not written yet
Uninit == [k |-> "uninit", v |-> 0]

Num(i) == Fin(i * Unit)

isfinite(x) == x.k = "fin"
isnan(x) == x.k = "nan"
isinf(x) == x.k = "inf"

\* IEEE comparisons: every comparison with a NaN is false
FEq(a, b) ==
    /\ ~isnan(a) /\ ~isnan(b)
    /\ a.k = b.k /\ a.v = b.v

FLt(a, b) ==
    /\ ~isnan(a) /\ ~isnan(b)
    /\ \/ isfinite(a) /\ isfinite(b) /\ a.v < b.v
       \/ isfinite(a) /\ b = PosInf
       \/ a = NegInf /\ b # NegInf

FLe(a, b) == FLt(a, b) \/ FEq(a, b)

\* x + c for a finite c (in units of 1 / Unit)
FAdd(x, c) == IF isfinite(x) THEN Fin(x.v + c) ELSE x

\* conversion of a double to the element type of a tensor
Round32(x) == IF isfinite(x) THEN Fin(x.v - (x.v % 2)) ELSE x
Cast(x, dtype) == IF dtype = "f32" THEN Round32(x) ELSE x

DTypes == {"f32", "f64"}

-----------------------------------------------------------------------------
(* Tensors: element type, sizes and the elements in row-major order.  rs     *)
(* counts the times the tensor changed its shape.                            *)

RECURSIVE Prod(_)
Prod(s) == IF s = <<>> THEN 1 ELSE Head(s) * Prod(Tail(s))

Tensor(dtype, sizes, data) == [dtype |-> dtype, sizes |-> sizes, data |-> data, rs |-> 0]

numel(t) == Prod(t.sizes)
dim(t) == Len(t.sizes)
\* t.size(-1)
size_last(t) == t.sizes[Len(t.sizes)]
pop_back(s) == SubSeq(s, 1, Len(s) - 1)

\* at::empty({0}, options)
empty0(dtype) == Tensor(dtype, <<0>>, <<>>)

\* Tensor::reshape: the same elements under other sizes
reshape(t, sizes) == [t EXCEPT !.sizes = sizes]

\* an absent optional
NoWeight == [has |-> FALSE, t |-> empty0("f64")]
SomeWeight(t) == [has |-> TRUE, t |-> t]
NoRange == [has |-> FALSE, v |-> <<>>]
SomeRange(v) == [has |-> TRUE, v |-> v]

\* at::native::resize_output: nothing happens to a tensor that has the sizes
\* already; otherwise the tensor gets them and its elements are unspecified
resize_output(t, sizes) ==
    IF t.sizes = sizes THEN t
    ELSE [t EXCEPT !.sizes = sizes,
                   !.data = [i \in 1..Prod(sizes) |-> Uninit],
                   !.rs = @ + 1]

\* Tensor::copy_: the elements of src, converted to the element type of dst
copy_(dst, src) == [dst EXCEPT !.data = [i \in 1..Len(src.data) |-> Cast(src.data[i], dst.dtype)]]

-----------------------------------------------------------------------------
(* Library functions the file calls.                                         *)

\* at::linspace_out: steps evenly spaced values from start to end, both ends
\* included, written into result, which is resized when it holds another
\* number of elements.  steps < 0 is an error.
linspace_value(start, end, steps, i) ==
    IF steps = 1 THEN start
    ELSE IF isfinite(start) /\ isfinite(end)
         THEN Fin(start.v + ((end.v - start.v) * (i - 1)) \div (steps - 1))
         ELSE NaN

linspace_cpu_out(start, end, steps, result) ==
    IF steps < 0 THEN [err |-> "linspace: steps must be non-negative", t |-> result]
    ELSE LET r == IF numel(result) # steps THEN resize_output(result, <<steps>>) ELSE result
         IN [err |-> "none",
             t |-> [r EXCEPT !.data = [i \in 1..steps |->
                                         Cast(linspace_value(start, end, steps, i), r.dtype)]]]

\* the smaller / larger of two values; a NaN wins
fmin(a, b) == IF isnan(a) \/ isnan(b) THEN NaN ELSE IF FLt(b, a) THEN b ELSE a
fmax(a, b) == IF isnan(a) \/ isnan(b) THEN NaN ELSE IF FLt(a, b) THEN b ELSE a

RECURSIVE seq_min(_)
seq_min(s) == IF Len(s) = 1 THEN s[1] ELSE fmin(s[1], seq_min(Tail(s)))
RECURSIVE seq_max(_)
seq_max(s) == IF Len(s) = 1 THEN s[1] ELSE fmax(s[1], seq_max(Tail(s)))

\* column d (1-based) of an (M, N) tensor
column(t, d) == [i \in 1..t.sizes[1] |-> t.data[(i - 1) * t.sizes[2] + d]]

\* at::aminmax(input, 0): the minimum and the maximum of every column
aminmax(t) ==
    [min |-> [d \in 1..t.sizes[2] |-> seq_min(column(t, d))],
     max |-> [d \in 1..t.sizes[2] |-> seq_max(column(t, d))]]

\* at::_aminmax(input): the minimum and the maximum of all the elements; an
\* error on a tensor without elements
aminmax_all(t) ==
    IF numel(t) = 0
    THEN [err |-> "aminmax: empty tensor", min |-> NaN, max |-> NaN]
    ELSE [err |-> "none", min |-> seq_min(t.data), max |-> seq_max(t.data)]

-----------------------------------------------------------------------------
(* histogramdd_check_inputs                                                  *)

\* the loop over the bins: the first check that fails, in the order of the code
RECURSIVE check_bins_from(_, _, _)
check_bins_from(input, bs, d) ==
    IF d > size_last(input) THEN "none"
    ELSE IF input.dtype # bs[d].dtype THEN "histogramdd: input and bins dtype"
    ELSE IF dim(bs[d]) # 1 THEN "histogramdd: bins tensor should have one dimension"
    ELSE IF ~(numel(bs[d]) > 0) THEN "histogramdd: bins tensor should have at least 1 element"
    ELSE check_bins_from(input, bs, d + 1)

\* check_weight without the line that turns the sizes of a scalar into {1}
check_weight_no_scalar(input, w) ==
    IF ~w.has THEN "none"
    ELSE IF input.dtype # w.t.dtype THEN "histogramdd: input and weight dtype"
    ELSE IF pop_back(input.sizes) = w.t.sizes THEN "none"
    ELSE "histogramdd: weight shape"

check_weight(input, w) ==
    IF ~w.has THEN "none"
    ELSE IF input.dtype # w.t.dtype THEN "histogramdd: input and weight dtype"
    ELSE LET input_sizes == pop_back(input.sizes)
             weight_sizes == IF w.t.sizes = <<>> THEN <<1>> ELSE w.t.sizes
         IN IF input_sizes = weight_sizes THEN "none"
            ELSE "histogramdd: weight shape"

histogramdd_check_inputs(input, bs, w) ==
    IF ~(dim(input) >= 2) THEN "histogramdd: input should have at least 2 dimensions"
    ELSE IF Len(bs) # size_last(input) THEN "histogramdd: expected N sequences of bin edges"
    ELSE IF check_bins_from(input, bs, 1) # "none" THEN check_bins_from(input, bs, 1)
    ELSE check_weight(input, w)

-----------------------------------------------------------------------------
(* histogramdd_prepare_out                                                   *)

\* the loop resizing bin_edges[dim] to bin_ct[dim], one element short
RECURSIVE prepare_edges_short(_, _, _, _)
prepare_edges_short(input, ct, edges, d) ==
    IF d > size_last(input) THEN [err |-> "none", edges |-> edges]
    ELSE IF input.dtype # edges[d].dtype
         THEN [err |-> "histogram: input and bin_edges dtype", edges |-> edges]
    ELSE IF ~(ct[d] > 0)
         THEN [err |-> "histogram: bins must be > 0", edges |-> edges]
    ELSE prepare_edges_short(input, ct,
             [edges EXCEPT ![d] = resize_output(edges[d], <<ct[d]>>)], d + 1)

\* the loop without its check of the element type of bin_edges[dim]
RECURSIVE prepare_edges_any_dtype(_, _, _, _)
prepare_edges_any_dtype(input, ct, edges, d) ==
    IF d > size_last(input) THEN [err |-> "none", edges |-> edges]
    ELSE IF ~(ct[d] > 0)
         THEN [err |-> "histogram: bins must be > 0", edges |-> edges]
    ELSE prepare_edges_any_dtype(input, ct,
             [edges EXCEPT ![d] = resize_output(edges[d], <<ct[d] + 1>>)], d + 1)

\* the loop with bin_ct[dim] >= 0 for bin_ct[dim] > 0
RECURSIVE prepare_edges_zero_ok(_, _, _, _)
prepare_edges_zero_ok(input, ct, edges, d) ==
    IF d > size_last(input) THEN [err |-> "none", edges |-> edges]
    ELSE IF input.dtype # edges[d].dtype
         THEN [err |-> "histogram: input and bin_edges dtype", edges |-> edges]
    ELSE IF ~(ct[d] >= 0)
         THEN [err |-> "histogram: bins must be > 0", edges |-> edges]
    ELSE prepare_edges_zero_ok(input, ct,
             [edges EXCEPT ![d] = resize_output(edges[d], <<ct[d] + 1>>)], d + 1)

\* the loop over the dimensions: the error it ends with and bin_edges as the
\* loop leaves them
RECURSIVE prepare_edges_from(_, _, _, _)
prepare_edges_from(input, ct, edges, d) ==
    IF d > size_last(input) THEN [err |-> "none", edges |-> edges]
    ELSE IF input.dtype # edges[d].dtype
         THEN [err |-> "histogram: input and bin_edges dtype", edges |-> edges]
    ELSE IF ~(ct[d] > 0)
         THEN [err |-> "histogram: bins must be > 0", edges |-> edges]
    ELSE prepare_edges_from(input, ct,
             [edges EXCEPT ![d] = resize_output(edges[d], <<ct[d] + 1>>)], d + 1)

histogramdd_prepare_out(input, ct, h, edges) ==
    IF Len(ct) # size_last(input) \/ Len(edges) # size_last(input)
    THEN [err |-> "internal assert failed", hist |-> h, edges |-> edges]
    ELSE IF input.dtype # h.dtype
    THEN [err |-> "histogram: input and hist dtype", hist |-> h, edges |-> edges]
    ELSE LET r == prepare_edges_from(input, ct, edges, 1)
         IN IF r.err # "none" THEN [err |-> r.err, hist |-> h, edges |-> r.edges]
            ELSE [err |-> "none", hist |-> resize_output(h, ct), edges |-> r.edges]

\* the overload that takes the edge tensors: the bin counts are numel - 1
bin_ct_of(bs) == [d \in 1..Len(bs) |-> numel(bs[d]) - 1]

histogramdd_prepare_out_bins(input, bs, h, edges) ==
    histogramdd_prepare_out(input, bin_ct_of(bs), h, edges)

-----------------------------------------------------------------------------
(* select_outer_bin_edges and histc_select_outer_bin_edges                   *)

\* leftmost_edges / rightmost_edges before the loop that validates them
raw_outer_bin_edges(input, range) ==
    LET N == size_last(input) IN
    IF range.has
    THEN [lo |-> [d \in 1..N |-> range.v[2 * d - 1]],
          hi |-> [d \in 1..N |-> range.v[2 * d]]]
    ELSE IF numel(input) > 0
    THEN [lo |-> aminmax(input).min, hi |-> aminmax(input).max]
    ELSE [lo |-> [d \in 1..N |-> Num(0)], hi |-> [d \in 1..N |-> Num(1)]]

\* the validating loop with the margin of torch.histc, 1 instead of 0.5
RECURSIVE outer_loop_wide(_, _, _)
outer_loop_wide(lo, hi, d) ==
    IF d > Len(lo) THEN [err |-> "none", lo |-> lo, hi |-> hi]
    ELSE IF ~(isfinite(lo[d]) /\ isfinite(hi[d]))
         THEN [err |-> "histogramdd: range is not finite", lo |-> lo, hi |-> hi]
    ELSE IF ~FLe(lo[d], hi[d])
         THEN [err |-> "histogramdd: min should not exceed max", lo |-> lo, hi |-> hi]
    ELSE IF FEq(lo[d], hi[d])
         THEN outer_loop_wide([lo EXCEPT ![d] = FAdd(@, -Unit)],
                              [hi EXCEPT ![d] = FAdd(@, Unit)], d + 1)
    ELSE outer_loop_wide(lo, hi, d + 1)

\* the validating loop with its two checks in the other order
RECURSIVE outer_loop_swapped(_, _, _)
outer_loop_swapped(lo, hi, d) ==
    IF d > Len(lo) THEN [err |-> "none", lo |-> lo, hi |-> hi]
    ELSE IF ~FLe(lo[d], hi[d])
         THEN [err |-> "histogramdd: min should not exceed max", lo |-> lo, hi |-> hi]
    ELSE IF ~(isfinite(lo[d]) /\ isfinite(hi[d]))
         THEN [err |-> "histogramdd: range is not finite", lo |-> lo, hi |-> hi]
    ELSE IF FEq(lo[d], hi[d])
         THEN outer_loop_swapped([lo EXCEPT ![d] = FAdd(@, -(Unit \div 2))],
                                 [hi EXCEPT ![d] = FAdd(@, Unit \div 2)], d + 1)
    ELSE outer_loop_swapped(lo, hi, d + 1)

\* the validating loop: the first error, or the edges with every empty range
\* expanded
RECURSIVE outer_loop_from(_, _, _)
outer_loop_from(lo, hi, d) ==
    IF d > Len(lo) THEN [err |-> "none", lo |-> lo, hi |-> hi]
    ELSE IF ~(isfinite(lo[d]) /\ isfinite(hi[d]))
         THEN [err |-> "histogramdd: range is not finite", lo |-> lo, hi |-> hi]
    ELSE IF ~FLe(lo[d], hi[d])
         THEN [err |-> "histogramdd: min should not exceed max", lo |-> lo, hi |-> hi]
    ELSE IF FEq(lo[d], hi[d])
         THEN outer_loop_from([lo EXCEPT ![d] = FAdd(@, -(Unit \div 2))],
                              [hi EXCEPT ![d] = FAdd(@, Unit \div 2)], d + 1)
    ELSE outer_loop_from(lo, hi, d + 1)

select_outer_bin_edges(input, range) ==
    IF range.has /\ Len(range.v) # 2 * size_last(input)
    THEN [err |-> "histogramdd: range should have 2 * N elements", lo |-> <<>>, hi |-> <<>>]
    ELSE LET raw == raw_outer_bin_edges(input, range)
         IN outer_loop_from(raw.lo, raw.hi, 1)

\* histc_select_outer_bin_edges with the margin of torch.histogram, 0.5 instead of 1
histc_select_half_margin(input, min, max) ==
    LET consult == FEq(min, max)
        extrema == aminmax_all(input)
        l1 == IF consult THEN extrema.min ELSE min
        r1 == IF consult THEN extrema.max ELSE max
        l2 == IF FEq(l1, r1) THEN FAdd(l1, -(Unit \div 2)) ELSE l1
        r2 == IF FEq(l1, r1) THEN FAdd(r1, Unit \div 2) ELSE r1
    IN IF consult /\ extrema.err # "none"
       THEN [err |-> extrema.err, lo |-> min, hi |-> max]
       ELSE IF isinf(l2) \/ isinf(r2) \/ isnan(l2) \/ isnan(r2)
       THEN [err |-> "histc: range is not finite", lo |-> l2, hi |-> r2]
       ELSE IF ~FLt(l2, r2)
       THEN [err |-> "histc: max must be larger than min", lo |-> l2, hi |-> r2]
       ELSE [err |-> "none", lo |-> l2, hi |-> r2]

histc_select_outer_bin_edges(input, min, max) ==
    LET consult == FEq(min, max)
        extrema == aminmax_all(input)
        l1 == IF consult THEN extrema.min ELSE min
        r1 == IF consult THEN extrema.max ELSE max
        l2 == IF FEq(l1, r1) THEN FAdd(l1, -Unit) ELSE l1
        r2 == IF FEq(l1, r1) THEN FAdd(r1, Unit) ELSE r1
    IN IF consult /\ extrema.err # "none"
       THEN [err |-> extrema.err, lo |-> min, hi |-> max]
       ELSE IF isinf(l2) \/ isinf(r2) \/ isnan(l2) \/ isnan(r2)
       THEN [err |-> "histc: range is not finite", lo |-> l2, hi |-> r2]
       ELSE IF ~FLt(l2, r2)
       THEN [err |-> "histc: max must be larger than min", lo |-> l2, hi |-> r2]
       ELSE [err |-> "none", lo |-> l2, hi |-> r2]

\* allocate_bin_edges_tensors
allocate_bin_edges_tensors(input) ==
    IF ~(dim(input) >= 2)
    THEN [err |-> "histogramdd: input should have at least 2 dimensions", edges |-> <<>>]
    ELSE [err |-> "none", edges |-> [d \in 1..size_last(input) |-> empty0(input.dtype)]]

-----------------------------------------------------------------------------
(* The calls the model makes.  An argument is drawn when the call first      *)
(* reads it: the code cannot tell an argument it has not read yet from any   *)
(* other, so this loses no call; args records every argument once drawn.     *)

Entries == {"histogramdd_out_cpu_bins", "histogramdd_out_cpu_bin_ct",
            "histogram_out_cpu_bins", "histogram_out_cpu_bin_ct",
            "histogram_histc_cpu_out"}

\* the entry points of torch.histogram and torch.histc: input is reshaped to (numel, 1)
OneD == {"histogram_out_cpu_bins", "histogram_out_cpu_bin_ct", "histogram_histc_cpu_out"}
\* the entry points whose bins argument is the edge tensors
WithBins == {"histogramdd_out_cpu_bins", "histogram_out_cpu_bins"}

\* the statements with histogramdd_out_cpu (bin counts) preparing the outputs
\* before it checks the inputs
Flow_prepare_first(e) ==
    CASE e = "histogramdd_out_cpu_bins" -> <<"check_inputs", "prepare_out", "copy", "stub">>
      [] e = "histogram_out_cpu_bins" -> <<"check_inputs", "prepare_out", "copy", "stub">>
      [] e = "histogramdd_out_cpu_bin_ct" ->
            <<"allocate", "select_outer", "linspace", "prepare_out", "check_inputs", "copy", "stub">>
      [] e = "histogram_out_cpu_bin_ct" ->
            <<"prepare_out", "select_outer", "linspace", "check_inputs", "stub">>
      [] e = "histogram_histc_cpu_out" ->
            <<"prepare_out", "histc_select_outer", "linspace", "check_inputs", "stub">>

\* the statements of each entry point, in the order of its body
Flow(e) ==
    CASE e = "histogramdd_out_cpu_bins" -> <<"check_inputs", "prepare_out", "copy", "stub">>
      [] e = "histogram_out_cpu_bins" -> <<"check_inputs", "prepare_out", "copy", "stub">>
      [] e = "histogramdd_out_cpu_bin_ct" ->
            <<"allocate", "select_outer", "linspace", "check_inputs", "prepare_out", "copy", "stub">>
      [] e = "histogram_out_cpu_bin_ct" ->
            <<"prepare_out", "select_outer", "linspace", "check_inputs", "stub">>
      [] e = "histogram_histc_cpu_out" ->
            <<"prepare_out", "histc_select_outer", "linspace", "check_inputs", "stub">>

Running == err = "none" /\ pc <= Len(Flow(args.entry))
At(step) == Running /\ Flow(args.entry)[pc] = step
Done == err = "none" /\ pc > Len(Flow(args.entry))
Failed == err # "none"

\* self as the helpers see it
reshaped_self == IF args.entry \in OneD
                 THEN reshape(args.self, <<numel(args.self), 1>>)
                 ELSE args.self
\* self.reshape({M, N}) of histogramdd_bin_edges_out_cpu
reshaped_MN(t) == reshape(t, <<Prod(pop_back(t.sizes)), size_last(t)>>)
reshaped_weight(w) == IF args.entry \in OneD /\ w.has
                      THEN SomeWeight(reshape(w.t, <<numel(w.t)>>))
                      ELSE w
\* the innermost dimension of the input the helpers see
N == size_last(reshaped_self)

Other(dt) == IF dt = "f32" THEN "f64" ELSE "f32"

\* ---- the sets the arguments are drawn from
SelfShapes == {<<1>>, <<1, MaxM, 1>>} \cup {<<m, n>> : m \in {0, MaxM}, n \in 1..MaxN}

PipeData(p, n) ==
    CASE p = "ones" -> [i \in 1..n |-> Num(1)]
      [] p = "ramp" -> [i \in 1..n |-> Num(i)]
      [] p = "nan" -> [i \in 1..n |-> NaN]

\* the elements of self are read by the entry points that take bin counts only
Patterns(e) == IF e \in WithBins THEN {"ramp"} ELSE {"ones", "ramp", "nan"}

SelfChoices(e) ==
    {Tensor(dt, sz, PipeData(p, Prod(sz))) : dt \in DTypes, sz \in SelfShapes, p \in Patterns(e)}

\* an edge tensor of n elements; the float64 ones hold values float32 cannot
EdgeTensor(dt, sizes) ==
    Tensor(dt, sizes, [i \in 1..Prod(sizes) |-> Cast(Fin(i * Unit + 1), dt)])
EdgeTensors(dt) == {EdgeTensor(dt, <<n>>) : n \in 0..(MaxCt + 1)} \cup {EdgeTensor(dt, <<1, 2>>)}

BinsChoices ==
    LET n == IF args.entry \in OneD THEN 1 ELSE size_last(args.self)
        right == UNION {[1..n -> EdgeTensors(dt)] : dt \in DTypes}
        wrong == IF args.entry \in OneD THEN {}
                 ELSE {[d \in 1..(n + 1) |-> EdgeTensor(args.self.dtype, <<2>>)]}
                      \cup (IF n = 0 THEN {}
                            ELSE {[d \in 1..(n - 1) |-> EdgeTensor(args.self.dtype, <<2>>)]})
    IN right \cup wrong

CtVals == (-2)..MaxCt

BinCtChoices ==
    IF args.entry \in OneD THEN {<<c>> : c \in CtVals}
    ELSE LET n == size_last(args.self)
             right == [1..n -> CtVals]
         IN right \cup {Append(c, x) : c \in right, x \in {0, 1}}
                  \cup (IF n = 0 THEN {} ELSE [1..(n - 1) -> CtVals])

RangeOf(n, lo, hi) == SomeRange([i \in 1..(2 * n) |-> IF i % 2 = 1 THEN lo ELSE hi])

RangeChoices ==
    {NoRange,
     RangeOf(N, Num(0), Num(1)),
     RangeOf(N, Num(1), Num(1)),
     RangeOf(N, Fin(1), Fin(2 * Unit + 1)),
     RangeOf(N, Num(0), NaN),
     RangeOf(N, Num(1), Num(0)),
     SomeRange([i \in 1..(2 * N + 1) |-> Num(i)])}

\* min and max of torch.histc
HistcChoices == {<<Num(0), Num(0)>>, <<Num(0), Num(2)>>, <<Num(2), Num(0)>>,
                 <<PosInf, PosInf>>, <<NaN, NaN>>, <<Num(0), PosInf>>}

WeightTensor(dt, sizes) == Tensor(dt, sizes, [i \in 1..Prod(sizes) |-> Num(1)])

WeightChoices ==
    IF args.entry = "histogram_histc_cpu_out" THEN {NoWeight}
    ELSE LET dt == args.self.dtype
             good == IF args.entry \in OneD THEN args.self.sizes ELSE pop_back(args.self.sizes)
         IN {NoWeight,
             SomeWeight(WeightTensor(dt, good)),
             SomeWeight(WeightTensor(dt, <<>>)),
             SomeWeight(WeightTensor(dt, <<MaxM + 1>>)),
             SomeWeight(WeightTensor(Other(dt), good))}

\* the output tensors: those the functional variant of the entry point
\* allocates (empty), or tensors of the caller
AllocatedOut ==
    LET dt == args.self.dtype
        edt == IF args.entry = "histogram_out_cpu_bins" THEN args.bins[1].dtype ELSE dt
    IN [hist |-> empty0(dt), edges |-> [d \in 1..N |-> empty0(edt)]]

OutChoices ==
    LET dt == args.self.dtype
        used(t) == Tensor(t, <<1>>, <<Num(7)>>)
    IN IF args.entry = "histogram_histc_cpu_out"
       THEN {[hist |-> empty0(dt), edges |-> <<empty0(dt)>>],
             [hist |-> used(dt), edges |-> <<empty0(dt)>>],
             [hist |-> used(Other(dt)), edges |-> <<empty0(dt)>>]}
       ELSE {AllocatedOut,
             [hist |-> used(dt), edges |-> [d \in 1..N |-> used(dt)]],
             [hist |-> used(Other(dt)), edges |-> [d \in 1..N |-> used(dt)]],
             [hist |-> used(dt), edges |-> [d \in 1..N |-> IF d = N THEN used(Other(dt)) ELSE used(dt)]]}
            \cup (IF args.entry \in OneD THEN {}
                  ELSE {[hist |-> used(dt), edges |-> [d \in 1..(N + 1) |-> used(dt)]]})

-----------------------------------------------------------------------------
(* The entry points, statement by statement.                                 *)

NoArgs(e, s) ==
    [entry |-> e, self |-> s, bins |-> <<>>, bin_ct |-> <<>>, range |-> NoRange,
     weight |-> NoWeight, density |-> FALSE, min |-> Num(0), max |-> Num(0),
     hist0 |-> empty0("f64"), edges0 |-> <<>>, drawn |-> {}]

Init ==
    /\ args \in {NoArgs(e, s) : e \in Entries, s \in UNION {SelfChoices(x) : x \in Entries}}
    /\ args.self \in SelfChoices(args.entry)
    /\ hist = empty0("f64")
    /\ bin_edges = <<>>
    /\ bins = <<>>
    /\ outer = [lo |-> <<>>, hi |-> <<>>]
    /\ pc = 1
    /\ err = "none"
    /\ calls = <<>>
    /\ log = <<>>

\* the end of a statement that may throw
Step(name, e) ==
    /\ err' = e
    /\ pc' = IF e = "none" THEN pc + 1 ELSE pc
    /\ log' = Append(log, name)

\* std::vector<Tensor> bin_edges_out = allocate_bin_edges_tensors(self)
Allocate ==
    /\ At("allocate")
    /\ LET r == allocate_bin_edges_tensors(args.self)
       IN /\ bins' = r.edges
          /\ Step("allocate", r.err)
    /\ UNCHANGED <<args, hist, bin_edges, outer, calls>>

\* auto outer_bin_edges = select_outer_bin_edges(reshaped_self, range)
SelectOuter ==
    /\ At("select_outer")
    /\ \E rg \in RangeChoices :
          LET r == select_outer_bin_edges(reshaped_MN(reshaped_self), rg)
          IN /\ args' = [args EXCEPT !.range = rg, !.drawn = @ \cup {"range"}]
             /\ outer' = [lo |-> r.lo, hi |-> r.hi]
             /\ Step("select_outer", r.err)
    /\ UNCHANGED <<hist, bin_edges, bins, calls>>

\* auto outer_bin_edges = histc_select_outer_bin_edges(self, min, max)
HistcSelectOuter ==
    /\ At("histc_select_outer")
    /\ \E mm \in HistcChoices :
          LET r == histc_select_outer_bin_edges(args.self, mm[1], mm[2])
          IN /\ args' = [args EXCEPT !.min = mm[1], !.max = mm[2], !.drawn = @ \cup {"min", "max"}]
             /\ outer' = [lo |-> <<r.lo>>, hi |-> <<r.hi>>]
             /\ Step("histc_select_outer", r.err)
    /\ UNCHANGED <<hist, bin_edges, bins, calls>>

\* the loop of histogramdd_bin_edges_out_cpu: linspace_cpu_out for every
\* dimension, up to the first one that throws
RECURSIVE linspace_from(_, _, _, _, _)
linspace_from(lo, hi, ct, ts, d) ==
    IF d > Len(ts) THEN [err |-> "none", ts |-> ts]
    ELSE LET r == linspace_cpu_out(lo[d], hi[d], ct[d] + 1, ts[d])
         IN IF r.err # "none" THEN [err |-> r.err, ts |-> ts]
            ELSE linspace_from(lo, hi, ct, [ts EXCEPT ![d] = r.t], d + 1)

\* histogramdd_out_cpu: the loop reads bin_ct[dim] for every dim < N.  A
\* bin_ct shorter than N is read past its end: any value may come back.
LinspaceDD ==
    /\ At("linspace")
    /\ args.entry = "histogramdd_out_cpu_bin_ct"
    /\ \E ct \in BinCtChoices :
       \E past \in [(Len(ct) + 1)..N -> CtVals] :
          LET read == [d \in 1..N |-> IF d <= Len(ct) THEN ct[d] ELSE past[d]]
              r == linspace_from(outer.lo, outer.hi, read, bins, 1)
          IN /\ args' = [args EXCEPT !.bin_ct = ct, !.drawn = @ \cup {"bin_ct"}]
             /\ bins' = r.ts
             /\ Step("linspace", r.err)
    /\ UNCHANGED <<hist, bin_edges, outer, calls>>

\* ... or the read past the end of bin_ct ends the process
LinspaceDDFault ==
    /\ At("linspace")
    /\ args.entry = "histogramdd_out_cpu_bin_ct"
    /\ \E ct \in BinCtChoices :
          /\ Len(ct) < N
          /\ args' = [args EXCEPT !.bin_ct = ct, !.drawn = @ \cup {"bin_ct"}]
          /\ Step("linspace", "segmentation fault")
    /\ UNCHANGED <<hist, bin_edges, bins, outer, calls>>

\* Linspace1D writing one edge more than histogramdd_prepare_out made room for
Linspace1D_one_more ==
    /\ At("linspace")
    /\ args.entry \in OneD
    /\ LET r == linspace_cpu_out(outer.lo[1], outer.hi[1], args.bin_ct[1] + 2, bin_edges[1])
       IN /\ bin_edges' = [bin_edges EXCEPT ![1] = r.t]
          /\ Step("linspace", r.err)
    /\ UNCHANGED <<args, hist, bins, outer, calls>>

\* linspace_cpu_out(outer_bin_edges.first[0], outer_bin_edges.second[0], bin_ct + 1, bin_edges)
Linspace1D ==
    /\ At("linspace")
    /\ args.entry \in OneD
    /\ LET r == linspace_cpu_out(outer.lo[1], outer.hi[1], args.bin_ct[1] + 1, bin_edges[1])
       IN /\ bin_edges' = [bin_edges EXCEPT ![1] = r.t]
          /\ Step("linspace", r.err)
    /\ UNCHANGED <<args, hist, bins, outer, calls>>

\* the TensorList given to histogramdd_check_inputs: the bins argument, the
\* vector histogramdd_bin_edges_cpu returned, or bins_in, which is bin_edges
bins_in(b) ==
    IF args.entry \in WithBins THEN b
    ELSE IF args.entry = "histogramdd_out_cpu_bin_ct" THEN bins
    ELSE bin_edges

\* histogramdd_check_inputs(self, bins, weight)
CheckInputs ==
    /\ At("check_inputs")
    /\ \E b \in (IF args.entry \in WithBins THEN BinsChoices ELSE {args.bins}) :
       \E w \in WeightChoices :
          LET e == histogramdd_check_inputs(reshaped_self, bins_in(b), reshaped_weight(w))
          IN /\ args' = [args EXCEPT !.bins = b, !.weight = w,
                                     !.drawn = @ \cup {"bins", "weight"}]
             /\ bins' = IF args.entry \in WithBins THEN b ELSE bins
             /\ Step("check_inputs", e)
    /\ UNCHANGED <<hist, bin_edges, outer, calls>>

\* histogramdd_prepare_out(self, bins, hist, bin_edges), or
\* histogramdd_prepare_out(reshaped_self, std::vector<int64_t>{bin_ct}, hist, bins_out)
prepare_out_call(ct, h, edges) ==
    IF args.entry \in {"histogram_out_cpu_bin_ct", "histogram_histc_cpu_out"}
    THEN histogramdd_prepare_out(reshaped_self, ct, h, edges)
    ELSE histogramdd_prepare_out_bins(reshaped_self, bins, h, edges)

PrepareOut ==
    /\ At("prepare_out")
    /\ \E o \in OutChoices :
       \E ct \in (IF args.entry \in {"histogram_out_cpu_bin_ct", "histogram_histc_cpu_out"}
                  THEN BinCtChoices ELSE {args.bin_ct}) :
          LET r == prepare_out_call(ct, o.hist, o.edges)
          IN /\ args' = [args EXCEPT !.hist0 = o.hist, !.edges0 = o.edges, !.bin_ct = ct,
                                     !.drawn = @ \cup {"hist", "bin_edges", "bin_ct"}]
             /\ hist' = r.hist
             /\ bin_edges' = r.edges
             /\ Step("prepare_out", r.err)
    /\ UNCHANGED <<bins, outer, calls>>

\* for (dim < bins.size()) bin_edges[dim].copy_(bins[dim])
copy_loop(edges, bs) ==
    [d \in 1..Len(edges) |-> IF d <= Len(bs) THEN copy_(edges[d], bs[d]) ELSE edges[d]]

CopyEdges ==
    /\ At("copy")
    /\ bin_edges' = copy_loop(bin_edges, bins)
    /\ Step("copy", "none")
    /\ UNCHANGED <<args, hist, bins, outer, calls>>

\* the call of the accumulator with every entry point on the linear one
stub_call_linear(dn) ==
    [stub |-> "histogramdd_linear_stub",
     self |-> reshaped_self,
     weight |-> IF args.entry = "histogram_histc_cpu_out" THEN NoWeight
                ELSE reshaped_weight(args.weight),
     density |-> dn,
     hist_sizes |-> hist.sizes,
     edges_arg |-> "bin_edges",
     edges |-> bin_edges,
     local_search |-> args.entry \in {"histogramdd_out_cpu_bin_ct", "histogram_out_cpu_bin_ct"}]

\* the call of the accumulator: which stub, and the arguments it is given
stub_call(dn) ==
    [stub |-> IF args.entry \in WithBins THEN "histogramdd_stub" ELSE "histogramdd_linear_stub",
     self |-> reshaped_self,
     weight |-> IF args.entry = "histogram_histc_cpu_out" THEN NoWeight
                ELSE reshaped_weight(args.weight),
     density |-> dn,
     hist_sizes |-> hist.sizes,
     edges_arg |-> "bin_edges",
     edges |-> bin_edges,
     local_search |-> args.entry \in {"histogramdd_out_cpu_bin_ct", "histogram_out_cpu_bin_ct"}]

Accumulate ==
    /\ At("stub")
    /\ \E dn \in (IF args.entry = "histogram_histc_cpu_out" THEN {FALSE} ELSE BOOLEAN) :
          /\ args' = [args EXCEPT !.density = dn, !.drawn = @ \cup {"density"}]
          /\ calls' = Append(calls, stub_call(dn))
    /\ Step("stub", "none")
    /\ UNCHANGED <<hist, bin_edges, bins, outer>>

Next ==
    \/ Allocate
    \/ SelectOuter
    \/ HistcSelectOuter
    \/ LinspaceDD
    \/ LinspaceDDFault
    \/ Linspace1D
    \/ CheckInputs
    \/ PrepareOut
    \/ CopyEdges
    \/ Accumulate

Spec == Init /\ [][Next]_vars

-----------------------------------------------------------------------------
(* histogramdd_bin_edges_cpu, the function that returns the edges only.  The *)
(* loop reads bin_ct[dim] for every dim < N: the operators are defined for a *)
(* bin_ct with N entries or more.                                            *)

\* histogramdd_bin_edges_out_cpu validating the weight as
\* histogramdd_check_inputs does
histogramdd_bin_edges_out_cpu_weighted(self, bin_ct, range, weight, density, bin_edges_out) ==
    LET o == select_outer_bin_edges(reshaped_MN(self), range)
    IN IF check_weight(self, weight) # "none"
       THEN [err |-> check_weight(self, weight), edges |-> bin_edges_out]
       ELSE IF o.err # "none" THEN [err |-> o.err, edges |-> bin_edges_out]
       ELSE LET l == linspace_from(o.lo, o.hi, bin_ct, bin_edges_out, 1)
            IN [err |-> l.err, edges |-> l.ts]

\* weight and density are parameters the body never reads
histogramdd_bin_edges_out_cpu(self, bin_ct, range, weight, density, bin_edges_out) ==
    LET o == select_outer_bin_edges(reshaped_MN(self), range)
    IN IF o.err # "none" THEN [err |-> o.err, edges |-> bin_edges_out]
       ELSE LET l == linspace_from(o.lo, o.hi, bin_ct, bin_edges_out, 1)
            IN [err |-> l.err, edges |-> l.ts]

histogramdd_bin_edges_cpu(self, bin_ct, range, weight, density) ==
    LET a == allocate_bin_edges_tensors(self)
    IN IF a.err # "none" THEN [err |-> a.err, edges |-> <<>>]
       ELSE histogramdd_bin_edges_out_cpu(self, bin_ct, range, weight, density, a.edges)

-----------------------------------------------------------------------------
(* histogramdd_check_inputs on its own: one call on arguments of every kind. *)

CheckShapes == {<<>>, <<2>>, <<1, MaxM, 1>>} \cup {<<m, n>> : m \in {1, MaxM}, n \in 0..MaxN}
CheckBinTensors == {Tensor(dt, sz, [i \in 1..Prod(sz) |-> Num(i)]) :
                       dt \in DTypes, sz \in {<<>>, <<0>>, <<2>>, <<1, 2>>}}
CheckWeights == {NoWeight} \cup {SomeWeight(WeightTensor(dt, sz)) :
                       dt \in DTypes, sz \in {<<>>, <<1>>, <<MaxM>>, <<1, MaxM>>}}

InitCheck ==
    /\ \E s \in {Tensor(dt, sz, [i \in 1..Prod(sz) |-> Num(i)]) : dt \in DTypes, sz \in CheckShapes} :
       \E n \in 0..MaxN :
       \E b \in [1..n -> CheckBinTensors] :
       \E w \in CheckWeights :
          args = [NoArgs("histogramdd_check_inputs", s) EXCEPT !.bins = b, !.weight = w]
    /\ hist = empty0("f64")
    /\ bin_edges = <<>>
    /\ bins = args.bins
    /\ outer = [lo |-> <<>>, hi |-> <<>>]
    /\ pc = 1
    /\ err = "none"
    /\ calls = <<>>
    /\ log = <<>>

CallCheckInputs ==
    /\ pc = 1
    /\ args.entry = "histogramdd_check_inputs"
    /\ err' = histogramdd_check_inputs(args.self, bins, args.weight)
    /\ pc' = 2
    /\ log' = Append(log, "check_inputs")
    /\ UNCHANGED <<args, hist, bin_edges, bins, outer, calls>>

NextCheck == CallCheckInputs

SpecCheck == InitCheck /\ [][NextCheck]_vars

-----------------------------------------------------------------------------
(* select_outer_bin_edges on its own: one call on an (M, N) input.           *)

OuterData == {Num(0), Num(5), NaN}
OuterRangeVals == {Num(0), Num(5), PosInf, NaN}

\* a range makes the function ignore the elements of the input
OuterRanged ==
    {Tensor("f64", <<m, n>>, [i \in 1..(m * n) |-> Num(5)]) : m \in {0, 1}, n \in 1..MaxN}

InitOuter ==
    /\ \/ \E m \in 0..MaxM :
          \E n \in 1..MaxN :
          \E dt \in [1..(m * n) -> OuterData] :
             args = NoArgs("select_outer_bin_edges", Tensor("f64", <<m, n>>, dt))
       \/ \E s \in OuterRanged :
          \E len \in {2 * size_last(s) - 1, 2 * size_last(s), 2 * size_last(s) + 1} :
          \E v \in [1..len -> OuterRangeVals] :
             /\ len # 2 * size_last(s) => \A i \in 1..len : v[i] = Num(0)
             /\ args = [NoArgs("select_outer_bin_edges", s) EXCEPT !.range = SomeRange(v)]
    /\ hist = empty0("f64")
    /\ bin_edges = <<>>
    /\ bins = <<>>
    /\ outer = [lo |-> <<>>, hi |-> <<>>]
    /\ pc = 1
    /\ err = "none"
    /\ calls = <<>>
    /\ log = <<>>

CallSelectOuter ==
    /\ pc = 1
    /\ args.entry = "select_outer_bin_edges"
    /\ LET r == select_outer_bin_edges(args.self, args.range)
       IN /\ outer' = [lo |-> r.lo, hi |-> r.hi]
          /\ err' = r.err
    /\ pc' = 2
    /\ log' = Append(log, "select_outer")
    /\ UNCHANGED <<args, hist, bin_edges, bins, calls>>

NextOuter == CallSelectOuter

SpecOuter == InitOuter /\ [][NextOuter]_vars

-----------------------------------------------------------------------------
(* histc_select_outer_bin_edges on its own.                                  *)

HistcData == {Num(0), Num(2), PosInf, NaN}
HistcBounds == {Num(0), Num(2), PosInf, NegInf, NaN}

InitHistc ==
    /\ \E m \in 0..MaxM :
       \E dt \in [1..m -> HistcData] :
       \E mn \in HistcBounds :
       \E mx \in HistcBounds :
          args = [NoArgs("histc_select_outer_bin_edges", Tensor("f64", <<m>>, dt))
                    EXCEPT !.min = mn, !.max = mx]
    /\ hist = empty0("f64")
    /\ bin_edges = <<>>
    /\ bins = <<>>
    /\ outer = [lo |-> <<>>, hi |-> <<>>]
    /\ pc = 1
    /\ err = "none"
    /\ calls = <<>>
    /\ log = <<>>

CallHistcSelectOuter ==
    /\ pc = 1
    /\ args.entry = "histc_select_outer_bin_edges"
    /\ LET r == histc_select_outer_bin_edges(args.self, args.min, args.max)
       IN /\ outer' = [lo |-> <<r.lo>>, hi |-> <<r.hi>>]
          /\ err' = r.err
    /\ pc' = 2
    /\ log' = Append(log, "histc_select_outer")
    /\ UNCHANGED <<args, hist, bin_edges, bins, calls>>

NextHistc == CallHistcSelectOuter

SpecHistc == InitHistc /\ [][NextHistc]_vars

-----------------------------------------------------------------------------
(* Properties of histogramdd_check_inputs (under SpecCheck).                 *)

\* what the documentation of torch.histogramdd asks of input, bins and weight
C4_Accepts ==
    LET input == args.self
        w == args.weight
    IN /\ Len(input.sizes) >= 2
       /\ Len(args.bins) = input.sizes[Len(input.sizes)]
       /\ \A d \in 1..Len(args.bins) :
             /\ Len(args.bins[d].sizes) = 1
             /\ args.bins[d].sizes[1] >= 1
             /\ args.bins[d].dtype = input.dtype
       /\ w.has =>
             /\ w.t.dtype = input.dtype
             /\ (IF w.t.sizes = <<>> THEN <<1>> ELSE w.t.sizes)
                   = SubSeq(input.sizes, 1, Len(input.sizes) - 1)

\* C4: histogramdd_check_inputs accepts (input, bins, weight) exactly when
\* the input has at least 2 dimensions, there are as many edge tensors as the
\* innermost dimension, every edge tensor has one dimension, at least one
\* element and the element type of the input, and a weight, if given, has the
\* element type of the input and the shape of the input without its innermost
\* dimension (a scalar weight counting as shape [1]); and the call changes
\* none of its arguments.
C4_CheckInputsExact ==
    /\ [](pc = 2 => (err = "none" <=> C4_Accepts))
    /\ [][args' = args /\ bins' = bins]_vars

\* a scalar weight is accepted for an input of shape (1, 2) with two edge tensors
C4_Witness ==
    /\ pc = 2 /\ err = "none"
    /\ args.self.sizes = <<1, 2>>
    /\ args.weight.has /\ args.weight.t.sizes = <<>>

-----------------------------------------------------------------------------
(* Properties of select_outer_bin_edges (under SpecOuter).                   *)

\* the elements of column d of the input
ColumnSet(d) ==
    {args.self.data[(i - 1) * args.self.sizes[2] + d] : i \in 1..args.self.sizes[1]}

\* the pair the documentation gives dimension d before an empty range is widened
OuterBase(d) ==
    IF args.range.has THEN <<args.range.v[2 * d - 1], args.range.v[2 * d]>>
    ELSE IF args.self.sizes[1] * args.self.sizes[2] > 0
    THEN <<CHOOSE x \in ColumnSet(d) : \A y \in ColumnSet(d) : FLe(x, y),
           CHOOSE x \in ColumnSet(d) : \A y \in ColumnSet(d) : FLe(y, x)>>
    ELSE <<Fin(0), Fin(Unit)>>

OuterWidened(p) ==
    IF p[1] = p[2] THEN <<Fin(p[1].v - Unit \div 2), Fin(p[2].v + Unit \div 2)>> ELSE p

\* C5: when select_outer_bin_edges succeeds, the pair of every dimension d is
\* (range[2d], range[2d+1]) if a range is given, else the (min, max) of column
\* d if the input has elements, else (0, 1); and a pair with low = high comes
\* back as (low - 0.5, high + 0.5), any other pair unchanged.  Samples [[5.0]]
\* without a range give (4.5, 5.5); an empty input without a range gives (0, 1).
C5_OuterEdges ==
    (pc = 2 /\ err = "none") =>
        /\ Len(outer.lo) = args.self.sizes[2] /\ Len(outer.hi) = args.self.sizes[2]
        /\ \A d \in 1..args.self.sizes[2] :
              <<outer.lo[d], outer.hi[d]>> = OuterWidened(OuterBase(d))
        /\ (~args.range.has /\ args.self.sizes = <<1, 1>> /\ args.self.data = <<Fin(5 * Unit)>>)
              => outer = [lo |-> <<Fin(5 * Unit - Unit \div 2)>>, hi |-> <<Fin(5 * Unit + Unit \div 2)>>]
        /\ (~args.range.has /\ args.self.sizes[1] = 0)
              => \A d \in 1..args.self.sizes[2] : outer.lo[d] = Fin(0) /\ outer.hi[d] = Fin(Unit)

\* the samples [[5.0]] without a range: (4.5, 5.5)
C5_Witness ==
    /\ pc = 2 /\ err = "none"
    /\ ~args.range.has /\ args.self.sizes = <<1, 1>> /\ args.self.data = <<Fin(5 * Unit)>>
    /\ outer.lo = <<Fin(5 * Unit - Unit \div 2)>>

C6_BadLen == args.range.has /\ Len(args.range.v) # 2 * args.self.sizes[2]

C6_NotFinite(d) ==
    IF args.range.has
    THEN args.range.v[2 * d - 1].k # "fin" \/ args.range.v[2 * d].k # "fin"
    ELSE \E x \in ColumnSet(d) : x.k # "fin"

C6_Inverted(d) ==
    /\ args.range.has
    /\ ~C6_NotFinite(d)
    /\ args.range.v[2 * d - 1].v > args.range.v[2 * d].v

C6_BadDims == {d \in 1..args.self.sizes[2] : C6_NotFinite(d) \/ C6_Inverted(d)}

\* C6: select_outer_bin_edges fails exactly when a given range has a length
\* other than 2N, or the low or high of some dimension is not finite, or the
\* low of some dimension is greater than its high; the error is that of the
\* first such dimension, "not finite" when its pair is not finite (inverted
\* or not), and a pair with low = high is never an error.
C6_OuterErrors ==
    pc = 2 =>
        /\ (err # "none") <=> (C6_BadLen \/ (~C6_BadLen /\ C6_BadDims # {}))
        /\ C6_BadLen => err = "histogramdd: range should have 2 * N elements"
        /\ (~C6_BadLen /\ C6_BadDims # {}) =>
              LET d0 == CHOOSE d \in C6_BadDims : \A e \in C6_BadDims : d <= e
              IN err = IF C6_NotFinite(d0) THEN "histogramdd: range is not finite"
                       ELSE "histogramdd: min should not exceed max"

\* a range whose first pair is (inf, 0), not finite and inverted: "not finite"
C6_Witness ==
    /\ pc = 2 /\ err = "histogramdd: range is not finite"
    /\ args.range.has /\ Len(args.range.v) = 2 * args.self.sizes[2]
    /\ args.range.v[1] = PosInf /\ args.range.v[2] = Fin(0)

-----------------------------------------------------------------------------
(* Properties of histc_select_outer_bin_edges (under SpecHistc).             *)

HistcElems == {args.self.data[i] : i \in 1..Len(args.self.data)}

\* min and max of the elements; NaN when one of them is a NaN
HistcDataMin ==
    IF \E x \in HistcElems : x.k = "nan" THEN NaN
    ELSE CHOOSE x \in HistcElems : \A y \in HistcElems : FLe(x, y)
HistcDataMax ==
    IF \E x \in HistcElems : x.k = "nan" THEN NaN
    ELSE CHOOSE x \in HistcElems : \A y \in HistcElems : FLe(y, x)

HistcDiffers == ~FEq(args.min, args.max)

HistcBase == IF HistcDiffers THEN <<args.min, args.max>> ELSE <<HistcDataMin, HistcDataMax>>

HistcPair ==
    IF FEq(HistcBase[1], HistcBase[2]) /\ HistcBase[1].k = "fin"
    THEN <<Fin(HistcBase[1].v - Unit), Fin(HistcBase[2].v + Unit)>>
    ELSE HistcBase

\* C7: histc_select_outer_bin_edges uses (min, max) as given when they differ
\* (whatever the elements of the input); when they are equal it takes the
\* minimum and the maximum of the elements; a pair that is still equal becomes
\* (v - 1, v + 1); the call fails when a bound is not finite or low >= high,
\* and otherwise returns the pair, with low < high.  (For min = max the pair
\* exists only when the input has elements.)
C7_HistcEdges ==
    (pc = 2 /\ (HistcDiffers \/ HistcElems # {})) =>
        LET bad == \/ HistcPair[1].k # "fin" \/ HistcPair[2].k # "fin"
                   \/ HistcPair[1].v >= HistcPair[2].v
        IN /\ (err # "none") <=> bad
           /\ err = "none" =>
                 /\ outer = [lo |-> <<HistcPair[1]>>, hi |-> <<HistcPair[2]>>]
                 /\ outer.lo[1].v < outer.hi[1].v

\* min = max = 0 and every element 2: the pair (1, 3)
C7_Witness ==
    /\ pc = 2 /\ err = "none"
    /\ args.min = Fin(0) /\ args.max = Fin(0)
    /\ outer = [lo |-> <<Fin(Unit)>>, hi |-> <<Fin(3 * Unit)>>]

-----------------------------------------------------------------------------
(* Properties of the entry points (under Spec).                              *)

InLog(name) == \E i \in 1..Len(log) : log[i] = name
\* a is in the log wherever b is, and before it
Before(a, b) ==
    \A j \in 1..Len(log) : log[j] = b => \E i \in 1..(j - 1) : log[i] = a

\* C1: after a successful call that takes bin counts, hist has the shape
\* (k_1, ..., k_N) of the bin counts and bin_edges[d] has k_d + 1 elements;
\* after one that takes the edges, hist has numel(bins[d]) - 1 bins in
\* dimension d and bin_edges[d] has as many elements as bins[d].
C1_Shapes ==
    Done =>
        IF args.entry \in WithBins
        THEN /\ hist.sizes = [d \in 1..Len(args.bins) |-> Len(args.bins[d].data) - 1]
             /\ Len(bin_edges) = Len(args.bins)
             /\ \A d \in 1..Len(args.bins) :
                   /\ bin_edges[d].sizes = <<Len(args.bins[d].data)>>
                   /\ Len(bin_edges[d].data) = Len(args.bins[d].data)
        ELSE /\ Len(hist.sizes) = N
             /\ Len(bin_edges) = N
             /\ \A d \in 1..N :
                   /\ d <= Len(args.bin_ct) => hist.sizes[d] = args.bin_ct[d]
                   /\ bin_edges[d].sizes = <<hist.sizes[d] + 1>>
                   /\ Len(bin_edges[d].data) = hist.sizes[d] + 1

\* histogramdd_out_cpu with bin counts (2, 1) returns a hist of shape (2, 1)
C1_Witness ==
    /\ Done
    /\ args.entry = "histogramdd_out_cpu_bin_ct"
    /\ args.bin_ct = <<2, 1>>
    /\ hist.sizes = <<2, 1>>
    /\ bin_edges[1].sizes = <<3>>

\* the bin counts the outputs are sized for
ExpectedCt ==
    IF args.entry \in WithBins THEN bin_ct_of(args.bins)
    ELSE IF args.entry = "histogramdd_out_cpu_bin_ct" THEN bin_ct_of(bins)
    ELSE args.bin_ct

\* torch.histc returns hist only: its bin_edges is a local tensor
EdgesAreOutput == args.entry # "histogram_histc_cpu_out"

NoneTouched ==
    /\ hist = args.hist0
    /\ EdgesAreOutput => bin_edges = args.edges0

AllFinal ==
    /\ "hist" \in args.drawn
    /\ hist.sizes = ExpectedCt
    /\ EdgesAreOutput =>
          /\ Len(bin_edges) = Len(ExpectedCt)
          /\ \A d \in 1..Len(bin_edges) : bin_edges[d].sizes = <<ExpectedCt[d] + 1>>

\* C2: a call that fails leaves either every output (hist and every
\* bin_edges[d]) with its final shape, or no output resized or written.
C2_AllOrNothing == Failed => (NoneTouched \/ AllFinal)

\* the values float32 holds are the even ones
EvenSpaced(lo, hi, k, j, dt) ==
    LET v == lo.v + ((hi.v - lo.v) * (j - 1)) \div k
    IN Fin(IF dt = "f32" THEN v - (v % 2) ELSE v)

\* C3: the edges an accumulator is given are the bin_edges outputs themselves,
\* and hold, dimension by dimension, the edges the caller gave (edges given)
\* or the evenly spaced edges from low to high of the selected outer edges
\* (bin counts given).  (torch.histc has no bin_edges output: its accumulator
\* is given the local bin_edges.)
C3_EdgesGiven ==
    \A i \in 1..Len(calls) :
        LET c == calls[i] IN
        /\ c.edges_arg = "bin_edges"
        /\ c.edges = bin_edges
        /\ Len(c.edges) = N
        /\ \A d \in 1..N :
              IF args.entry \in WithBins
              THEN c.edges[d].data = args.bins[d].data
              ELSE LET k == Len(c.edges[d].data) - 1 IN
                   /\ k >= 1
                   /\ d <= Len(args.bin_ct) => k = args.bin_ct[d]
                   /\ \A j \in 1..(k + 1) :
                         c.edges[d].data[j]
                            = EvenSpaced(outer.lo[d], outer.hi[d], k, j, c.edges[d].dtype)

\* histogramdd_out_cpu with bin counts on a float32 input of two columns and
\* a range float32 cannot hold: the accumulator was called
C3_Witness ==
    /\ Len(calls) = 1
    /\ args.entry = "histogramdd_out_cpu_bin_ct"
    /\ args.self.dtype = "f32"
    /\ N = 2
    /\ args.range.has /\ args.range.v[1] = Fin(1)
    /\ calls[1].edges[1].data[1] = Fin(0)

\* some dimension has a bin count <= 0
BadCount ==
    IF args.entry \in WithBins
    THEN /\ "bins" \in args.drawn
         /\ \E d \in 1..Len(args.bins) : args.bins[d].sizes = <<1>>
    ELSE /\ "bin_ct" \in args.drawn
         /\ \E d \in 1..Len(args.bin_ct) : d <= N /\ args.bin_ct[d] <= 0

\* C8: a call with a bin count <= 0 in some dimension (a requested count
\* <= 0, or an edge tensor of exactly 1 element) never succeeds and never
\* invokes an accumulator; it has failed once both histogramdd_check_inputs
\* and histogramdd_prepare_out have been called.
C8_BadCountFails ==
    BadCount =>
        /\ calls = <<>>
        /\ ~Done
        /\ (InLog("check_inputs") /\ InLog("prepare_out")) => Failed

\* histogramdd_out_cpu with bin counts (1, 0): "bins must be > 0"
C8_Witness ==
    /\ args.entry = "histogramdd_out_cpu_bin_ct"
    /\ args.bin_ct = <<1, 0>>
    /\ err = "histogram: bins must be > 0"
    /\ calls = <<>>

\* C9: in both N-dimensional entry points a call with a number of edge
\* tensors, or of bin counts, other than N does not succeed.
C9_CountMismatchFails ==
    LET mismatch ==
           \/ /\ args.entry = "histogramdd_out_cpu_bins"
              /\ "bins" \in args.drawn
              /\ Len(args.bins) # N
           \/ /\ args.entry = "histogramdd_out_cpu_bin_ct"
              /\ "bin_ct" \in args.drawn
              /\ Len(args.bin_ct) # N
    IN mismatch => ~Done

SelectSteps == {"select_outer", "histc_select_outer"}

ExpectedStub ==
    CASE args.entry = "histogramdd_out_cpu_bins" -> "histogramdd_stub"
      [] args.entry = "histogram_out_cpu_bins" -> "histogramdd_stub"
      [] args.entry = "histogramdd_out_cpu_bin_ct" -> "histogramdd_linear_stub"
      [] args.entry = "histogram_out_cpu_bin_ct" -> "histogramdd_linear_stub"
      [] args.entry = "histogram_histc_cpu_out" -> "histogramdd_linear_stub"

\* C11: a successful call has invoked an accumulator exactly once; no call
\* invokes one more than once; every invocation is of the generic
\* accumulator in the entry points that take the edges and of the linear one
\* in those that take bin counts and in histc; histc passes no weight and
\* density = false.
C11_Dispatch ==
    /\ Len(calls) <= 1
    /\ Done => Len(calls) = 1
    /\ \A i \in 1..Len(calls) :
          /\ calls[i].stub = ExpectedStub
          /\ args.entry = "histogram_histc_cpu_out" =>
                /\ ~calls[i].weight.has
                /\ calls[i].density = FALSE

\* a successful histogramdd_out_cpu with edge tensors and a weight: the
\* generic accumulator was invoked
C11_Witness ==
    /\ Done
    /\ args.entry = "histogramdd_out_cpu_bins"
    /\ args.weight.has
    /\ Len(calls) = 1
    /\ calls[1].stub = "histogramdd_stub"

\* the output tensors as a step finds them: those of the call once
\* histogramdd_prepare_out has been given them, before that the ones it is
\* about to be given
HistBefore == IF "hist" \in args.drawn THEN hist ELSE args'.hist0
EdgesBefore == IF "bin_edges" \in args.drawn THEN bin_edges ELSE args'.edges0

\* a step that changes the shape of a tensor is the first one to do so
OneResize(before, after) ==
    after.sizes # before.sizes => before.rs = 0 /\ after.rs = 1

\* the outputs the entry point allocates itself: bin_edges of
\* histogram_histc_cpu_out, and the vector of histogramdd_bin_edges_cpu
AllocatedEmpty ==
    /\ (args.entry = "histogram_histc_cpu_out" /\ "bin_edges" \in args.drawn) =>
          \A d \in 1..Len(args.edges0) : numel(args.edges0[d]) = 0
    /\ (args.entry = "histogramdd_out_cpu_bin_ct" /\ log = <<"allocate">> /\ err = "none") =>
          /\ Len(bins) = N
          /\ \A d \in 1..Len(bins) : numel(bins[d]) = 0

\* C12: within one call the buffers an entry point allocates start empty;
\* the histogram, every edge output and every edge tensor the entry point
\* allocated change shape at most once, in the step that resizes them, and
\* keep that shape in every later step of the call.
C12_ResizeOnce ==
    /\ [](/\ AllocatedEmpty
          /\ hist.rs <= 1
          /\ \A d \in 1..Len(bin_edges) : bin_edges[d].rs <= 1
          /\ \A d \in 1..Len(bins) : bins[d].rs <= 1)
    /\ [][/\ OneResize(HistBefore, hist')
          /\ Len(bin_edges') = Len(EdgesBefore)
          /\ \A d \in 1..Len(EdgesBefore) : OneResize(EdgesBefore[d], bin_edges'[d])
          /\ \A d \in 1..Len(bins) : OneResize(bins[d], bins'[d])
          /\ hist.rs = 1 => hist'.sizes = hist.sizes
          /\ \A d \in 1..Len(bin_edges) :
                bin_edges[d].rs = 1 => bin_edges'[d].sizes = bin_edges[d].sizes
          /\ \A d \in 1..Len(bins) :
                bins[d].rs = 1 => bins'[d].sizes = bins[d].sizes]_vars

\* a successful histogram_out_cpu with a bin count on empty outputs:
\* histogramdd_prepare_out resized both, linspace_cpu_out found the edge
\* tensor with the right number of elements
C12_Witness ==
    /\ Done
    /\ args.entry = "histogram_out_cpu_bin_ct"
    /\ numel(args.hist0) = 0
    /\ numel(args.edges0[1]) = 0
    /\ hist.rs = 1
    /\ bin_edges[1].rs = 1
    /\ InLog("linspace")

\* the elements, the sizes and the element type of two lists of tensors agree
SameEdges(a, b) ==
    /\ Len(a) = Len(b)
    /\ \A d \in 1..Len(a) :
          /\ a[d].dtype = b[d].dtype
          /\ a[d].sizes = b[d].sizes
          /\ a[d].data = b[d].data

\* histogramdd_out_cpu with bin counts has read the range and a bin count
\* for every dimension
EdgesInputsRead ==
    /\ args.entry = "histogramdd_out_cpu_bin_ct"
    /\ {"range", "bin_ct"} \subseteq args.drawn
    /\ Len(args.bin_ct) >= N

\* histogramdd_bin_edges_cpu on the samples, bin counts and range of the
\* call, without a weight and with density = false
EdgesAlone == histogramdd_bin_edges_cpu(args.self, args.bin_ct, args.range, NoWeight, FALSE)

\* histogramdd_out_cpu has just called histogramdd_bin_edges_cpu (line 302)
EdgesJustComputed == EdgesInputsRead /\ log[Len(log)] = "linspace"

\* C13: on the samples, bin counts (one for every dimension) and range of a
\* successful histogramdd_out_cpu with bin counts, histogramdd_bin_edges_cpu
\* succeeds and returns the edges the call left in bin_edges.  Where
\* histogramdd_out_cpu has just obtained its edges, histogramdd_bin_edges_cpu
\* ends the same way and returns the same edges whatever weight and density
\* it is given: any two calls that differ in weight and density only return
\* equal edges.
C13_EdgesAgree ==
    /\ (EdgesInputsRead /\ Done) =>
          EdgesAlone.err = "none" /\ SameEdges(EdgesAlone.edges, bin_edges)
    /\ EdgesJustComputed =>
          LET alone == EdgesAlone
          IN /\ alone.err = err
             /\ SameEdges(alone.edges, bins)
             /\ \A w \in WeightChoices : \A dn \in BOOLEAN :
                   histogramdd_bin_edges_cpu(args.self, args.bin_ct, args.range, w, dn) = alone

\* a successful weighted, normalised call on two dimensions, with three
\* edges left in the first output
C13_Witness ==
    /\ Done
    /\ EdgesInputsRead
    /\ N = 2
    /\ args.weight.has
    /\ args.density
    /\ bin_edges[1].sizes = <<3>>
    /\ bin_edges[1].data[1] # bin_edges[1].data[3]

=============================================================================
